---------------------------- MODULE Spec2Model ----------------------------
(***************************************************************************)
(* Model of src/src/components/fields/CheckboxField.tsx.                   *)
(*                                                                         *)
(* The file holds two field type definitions, both exported under the name *)
(* CheckboxFieldFormElement and both with the type tag "CheckboxField":    *)
(*   - the single checkbox          (lines 1-238),  suffix _single here;    *)
(*   - the checkbox group           (lines 240-547), suffix _group here.    *)
(*                                                                         *)
(* JavaScript strings are modelled as sequences of one-character strings,  *)
(* so that trim, split and join are computed character by character.       *)
(***************************************************************************)
EXTENDS Integers, Sequences, FiniteSets, TLC

VARIABLES
    \* --- a call of validate(formElement, currentValue) -------------------
    vDef,        \* which definition's validate is called: "single" | "group"
    vInstance,   \* the FormElementInstance passed
    vValue,      \* the currentValue passed (a string, or undefined)
    vResult,     \* "none" before the call; "true" | "false" | "TypeError" after
    \* --- the designer: the document and the properties panel -------------
    elements,    \* the document: id -> FormElementInstance; extraAttributes
                 \* holds a reference (an address of heap)
    madeBy,      \* id -> the definition whose construct made the instance
    heap,        \* address -> configuration object
    selected,    \* id of the element the properties panel shows, or "none"
    form,        \* the values held by the panel's useForm
    optionsInput,\* the panel's optionsInput state (checkbox group)
    lastStep,    \* the handler that ran last and whether it called updateElement
    \* --- a mounted FormComponent ----------------------------------------
    fDef,        \* which definition's FormComponent: "single" | "group"
    fElement,    \* props.elementInstance (its extraAttributes held by value)
    fSubmit,     \* whether props.submitValue is given
    fDefault,    \* props.defaultValue (a string, or undefined)
    isInvalid,   \* props.isInvalid
    checked,     \* useState: checked (single checkbox)
    selectedOptions, \* useState: selectedOptions (checkbox group)
    error,       \* useState: error ("null" or the message)
    submitted,   \* the value last passed to submitValue for element.id,
                 \* undefined while none was
    mounts       \* how many times the component was created again

validateVars == <<vDef, vInstance, vValue, vResult>>
designerVars == <<elements, madeBy, heap, selected, form, optionsInput, lastStep>>
formVars == <<fDef, fElement, fSubmit, fDefault, isInvalid, checked,
              selectedOptions, error, submitted, mounts>>
vars == <<validateVars, designerVars, formVars>>

----------------------------------------------------------------------------
(* Bounds of the model *)

\* longest submitted value enumerated character by character
MaxValueLen == 2

\* longest text typed into the options input of the properties panel
MaxOptionsInputLen == 3

\* most options of a checkbox group shown by a FormComponent
MaxOptions == 2

\* how many times a FormComponent is created again with the submitted value
MaxRemounts == 1

----------------------------------------------------------------------------
(* JavaScript strings *)

\* characters String.prototype.trim removes (the ones a text input can hold)
WhiteSpace == {" ", "\t"}

\* the JavaScript value undefined: not a string (its one element is not a
\* character), so no string operation is defined on it
undefined == <<"undefined">>

S_true  == <<"t", "r", "u", "e">>
S_false == <<"f", "a", "l", "s", "e">>
S_Option1 == <<"O", "p", "t", "i", "o", "n", " ", "1">>
S_Option2 == <<"O", "p", "t", "i", "o", "n", " ", "2">>
S_Option3 == <<"O", "p", "t", "i", "o", "n", " ", "3">>
S_CheckboxField == <<"C", "h", "e", "c", "k", "b", "o", "x", "F", "i", "e", "l", "d">>

\* all strings of length at most n over the characters cs
StringsUpTo(cs, n) == UNION {[1..k -> cs] : k \in 0..n}

RECURSIVE TrimStart(_)
TrimStart(s) ==
    IF s # <<>> /\ Head(s) \in WhiteSpace THEN TrimStart(Tail(s)) ELSE s

RECURSIVE TrimEnd(_)
TrimEnd(s) ==
    IF s # <<>> /\ s[Len(s)] \in WhiteSpace
    THEN TrimEnd(SubSeq(s, 1, Len(s) - 1))
    ELSE s

\* String.prototype.trim
Trim(s) == TrimEnd(TrimStart(s))

\* String.prototype.split with a one-character separator:
\* "".split(",") is [""], "a,".split(",") is ["a", ""]
RECURSIVE Split(_, _)
Split(s, sep) ==
    IF \E i \in 1..Len(s) : s[i] = sep
    THEN LET i == CHOOSE k \in 1..Len(s) :
                      s[k] = sep /\ \A j \in 1..(k - 1) : s[j] # sep
         IN  <<SubSeq(s, 1, i - 1)>> \o Split(SubSeq(s, i + 1, Len(s)), sep)
    ELSE <<s>>

\* Array.prototype.join with the separator string sep
RECURSIVE Join(_, _)
Join(list, sep) ==
    IF Len(list) = 0 THEN <<>>
    ELSE IF Len(list) = 1 THEN list[1]
    ELSE list[1] \o sep \o Join(Tail(list), sep)

\* Array.prototype.includes
Includes(list, x) == \E i \in 1..Len(list) : list[i] = x

\* a string of n copies of the character c
Repeat(c, n) == [i \in 1..n |-> c]

----------------------------------------------------------------------------
(* The two field type definitions: tag, default configuration, schema *)

Definitions == {"single", "group"}

type_single == S_CheckboxField
type_group  == S_CheckboxField

TypeOf(def) == IF def = "single" THEN type_single ELSE type_group

S_AcceptTerms ==
    <<"A","c","c","e","p","t"," ","T","e","r","m","s"," ","a","n","d"," ",
      "C","o","n","d","i","t","i","o","n","s">>
S_YouMustAgree ==
    <<"Y","o","u"," ","m","u","s","t"," ","a","g","r","e","e"," ","t","o"," ",
      "p","r","o","c","e","e","d">>
S_SelectInterests ==
    <<"S","e","l","e","c","t"," ","y","o","u","r"," ",
      "i","n","t","e","r","e","s","t","s">>
S_ChooseAll ==
    <<"C","h","o","o","s","e"," ","a","l","l"," ","t","h","a","t"," ",
      "a","p","p","l","y">>

extraAttributes_single ==
    [label |-> S_AcceptTerms, helperText |-> S_YouMustAgree, required |-> TRUE]

\* mutant: the default configuration has no options
extraAttributes_group_NoOptions ==
    [label |-> S_SelectInterests, helperText |-> S_ChooseAll,
     required |-> FALSE, options |-> <<>>]

extraAttributes_group ==
    [label |-> S_SelectInterests, helperText |-> S_ChooseAll,
     required |-> FALSE, options |-> <<S_Option1, S_Option2, S_Option3>>]

----------------------------------------------------------------------------
(* validate *)

Returned(b) == IF b THEN "true" ELSE "false"

\* mutant: "anything but false" instead of "exactly true"
validate_single_NotFalse(formElement, currentValue) ==
    IF formElement.extraAttributes.required
    THEN Returned(currentValue # S_false)
    ELSE "true"

validate_single(formElement, currentValue) ==
    IF formElement.extraAttributes.required
    THEN Returned(currentValue = S_true)
    ELSE "true"

\* mutant: the trim is forgotten
validate_group_NoTrim(formElement, currentValue) ==
    IF formElement.extraAttributes.required
    THEN IF currentValue = undefined
         THEN "TypeError"
         ELSE Returned(Len(currentValue) > 0)
    ELSE "true"

\* currentValue.trim() on undefined throws a TypeError
validate_group(formElement, currentValue) ==
    IF formElement.extraAttributes.required
    THEN IF currentValue = undefined
         THEN "TypeError"
         ELSE Returned(Len(Trim(currentValue)) > 0)
    ELSE "true"

validate(def, formElement, currentValue) ==
    IF def = "single"
    THEN validate_single(formElement, currentValue)
    ELSE validate_group(formElement, currentValue)

----------------------------------------------------------------------------
(* construct and the configuration schemas *)

\* configuration objects live in a heap; an instance's extraAttributes is a
\* reference.  The module-level constant extraAttributes of each definition
\* is one object; applyChanges builds a new object for the element it updates
\* (the object it replaces is no longer referenced by the document).
ModuleRef(def) == <<"module", def>>
FreshRef(id)   == <<"applyChanges", id>>

ModuleHeap ==
    [r \in {ModuleRef(d) : d \in Definitions} |->
        IF r = ModuleRef("single") THEN extraAttributes_single
                                   ELSE extraAttributes_group]

construct_single(id) ==
    [id |-> id, type |-> type_single, extraAttributes |-> ModuleRef("single")]

construct_group(id) ==
    [id |-> id, type |-> type_group, extraAttributes |-> ModuleRef("group")]

construct(def, id) ==
    IF def = "single" THEN construct_single(id) ELSE construct_group(id)

\* z.object({label: z.string().min(2).max(50), helperText: z.string().max(200),
\*           required: z.boolean()})
propertiesSchema_single(values) ==
    /\ Len(values.label) >= 2 /\ Len(values.label) <= 50
    /\ Len(values.helperText) <= 200
    /\ values.required \in BOOLEAN

\* ... and options: z.array(z.string()).min(1)
propertiesSchema_group(values) ==
    /\ Len(values.label) >= 2 /\ Len(values.label) <= 50
    /\ Len(values.helperText) <= 200
    /\ values.required \in BOOLEAN
    /\ Len(values.options) >= 1

propertiesSchema(def, values) ==
    IF def = "single" THEN propertiesSchema_single(values)
                      ELSE propertiesSchema_group(values)

----------------------------------------------------------------------------
(* The designer document and the properties panel *)

ElementIds == {"e1", "e2"}

NoForm == [none |-> TRUE]
NoStep == [handler |-> "none", updateElement |-> FALSE]
Step(h, u) == [handler |-> h, updateElement |-> u]

\* the configuration an element of the document refers to
Config(id) == heap[elements[id].extraAttributes]

S_CommaSpace == <<",", " ">>

\* the text shown in the options input for a list of options
OptionsText(def, attrs) ==
    IF def = "group" THEN Join(attrs.options, S_CommaSpace) ELSE <<>>

InitDesigner ==
    /\ elements = [i \in {} |-> NoForm]
    /\ madeBy = [i \in {} |-> "single"]
    /\ heap = ModuleHeap
    /\ selected = "none"
    /\ form = NoForm
    /\ optionsInput = <<>>
    /\ lastStep = NoStep

\* the designer adds a field: construct(id) of one of the definitions
AddElement(def, id) ==
    /\ id \notin DOMAIN elements
    /\ elements' = [i \in DOMAIN elements \cup {id} |->
                       IF i = id THEN construct(def, id) ELSE elements[i]]
    /\ madeBy' = [i \in DOMAIN madeBy \cup {id} |->
                       IF i = id THEN def ELSE madeBy[i]]
    /\ lastStep' = Step("construct", FALSE)
    /\ UNCHANGED <<heap, selected, form, optionsInput>>
    /\ UNCHANGED <<validateVars, formVars>>

\* PropertiesComponent is mounted for an element: useForm's defaultValues and
\* the effect's form.reset(element.extraAttributes), optionsInput's initial value
SelectElement(id) ==
    /\ id \in DOMAIN elements
    /\ id # selected
    /\ selected' = id
    /\ form' = Config(id)
    /\ optionsInput' = OptionsText(madeBy[id], Config(id))
    /\ lastStep' = Step("select", FALSE)
    /\ UNCHANGED <<elements, madeBy, heap>>
    /\ UNCHANGED <<validateVars, formVars>>

\* the label Input's onChange (field.onChange)
ChangeLabel(s) ==
    /\ selected # "none"
    /\ form' = [form EXCEPT !.label = s]
    /\ lastStep' = Step("change", FALSE)
    /\ UNCHANGED <<elements, madeBy, heap, selected, optionsInput>>
    /\ UNCHANGED <<validateVars, formVars>>

\* the helper text Input's onChange (field.onChange)
ChangeHelperText(s) ==
    /\ selected # "none"
    /\ form' = [form EXCEPT !.helperText = s]
    /\ lastStep' = Step("change", FALSE)
    /\ UNCHANGED <<elements, madeBy, heap, selected, optionsInput>>
    /\ UNCHANGED <<validateVars, formVars>>

\* the required Switch's onCheckedChange (field.onChange)
ToggleRequired ==
    /\ selected # "none"
    /\ form' = [form EXCEPT !.required = ~form.required]
    /\ lastStep' = Step("change", FALSE)
    /\ UNCHANGED <<elements, madeBy, heap, selected, optionsInput>>
    /\ UNCHANGED <<validateVars, formVars>>

\* the options Input's onChange: setOptionsInput(e.target.value)
ChangeOptionsInput(s) ==
    /\ selected # "none"
    /\ madeBy[selected] = "group"
    /\ optionsInput' = s
    /\ lastStep' = Step("change", FALSE)
    /\ UNCHANGED <<elements, madeBy, heap, selected, form>>
    /\ UNCHANGED <<validateVars, formVars>>

\* mutant: the parts are not trimmed
finalOptions_NoTrim(text) ==
    LET options == SelectSeq(Split(text, ","), LAMBDA opt : Len(opt) > 0)
    IN  IF Len(options) > 0 THEN options ELSE <<S_Option1>>

\* the options Input's onBlur: split on ",", trim each part, drop the empty
\* ones, fall back to ["Option 1"]
finalOptions(text) ==
    LET parts   == Split(text, ",")
        trimmed == [i \in 1..Len(parts) |-> Trim(parts[i])]
        options == SelectSeq(trimmed, LAMBDA opt : Len(opt) > 0)
    IN  IF Len(options) > 0 THEN options ELSE <<S_Option1>>

\* mutant: the form is submitted without the resolver's verdict
handleSubmit_NoResolver(def, values) == TRUE

\* form.handleSubmit(applyChanges) with resolver zodResolver(propertiesSchema):
\* whether applyChanges is called with the values
handleSubmit(def, values) == propertiesSchema(def, values)

\* useDesigner().updateElement(id, element): the element replaces the one
\* with that id in the document
updateElement(els, id, element) == [els EXCEPT ![id] = element]

\* applyChanges(values): updateElement(element.id, {...element,
\* extraAttributes: {label, helperText, required[, options]}})
applyChanges(def, id, values) ==
    LET attrs == IF def = "single"
                 THEN [label |-> values.label, helperText |-> values.helperText,
                       required |-> values.required]
                 ELSE [label |-> values.label, helperText |-> values.helperText,
                       required |-> values.required, options |-> values.options]
    IN  /\ heap' = [r \in DOMAIN heap \cup {FreshRef(id)} |->
                       IF r = FreshRef(id) THEN attrs ELSE heap[r]]
        /\ elements' = updateElement(elements, id,
                           [elements[id] EXCEPT !.extraAttributes = FreshRef(id)])

\* the form's onBlur with the values and the options text held at that moment:
\* handleSubmit; when applyChanges ran, the element is a new object and the
\* effect resets the form and the options text from it
Submit(handler, values, text) ==
    LET def == madeBy[selected]
    IN  IF handleSubmit(def, values)
        THEN /\ applyChanges(def, selected, values)
             /\ form' = heap'[elements'[selected].extraAttributes]
             /\ optionsInput' = OptionsText(def, form')
             /\ lastStep' = Step(handler, TRUE)
             /\ UNCHANGED <<madeBy, selected>>
        ELSE /\ form' = values
             /\ optionsInput' = text
             /\ lastStep' = Step(handler, FALSE)
             /\ UNCHANGED <<elements, madeBy, heap, selected>>

\* the options Input loses focus: its onBlur, then the form's onBlur
BlurOptionsInput ==
    /\ selected # "none"
    /\ madeBy[selected] = "group"
    /\ LET final == finalOptions(optionsInput)
       IN  Submit("optionsBlur", [form EXCEPT !.options = final],
                  Join(final, S_CommaSpace))
    /\ UNCHANGED <<validateVars, formVars>>

\* another control of the panel loses focus: the form's onBlur
BlurForm ==
    /\ selected # "none"
    /\ Submit("formBlur", form, optionsInput)
    /\ UNCHANGED <<validateVars, formVars>>

----------------------------------------------------------------------------
(* FormComponent *)

\* Boolean.prototype.toString
BooleanToString(b) == IF b THEN S_true ELSE S_false

\* useState(defaultValue === "true")
initialChecked(defaultValue) == defaultValue = S_true

\* useState(defaultValue ? defaultValue.split(",").filter(v => v.trim()) : []):
\* undefined and "" are falsy
initialSelectedOptions(defaultValue) ==
    IF defaultValue = undefined \/ defaultValue = <<>>
    THEN <<>>
    ELSE SelectSeq(Split(defaultValue, ","), LAMBDA v : Len(Trim(v)) > 0)

\* mutant: no message for a field that is not required
syncError_RequiredOnly(def, required, invalid) ==
    IF invalid /\ required
    THEN IF def = "single" THEN "This field is required"
                           ELSE "Please select at least one option"
    ELSE "null"

\* the effect on [isInvalid, required]: the error it sets
syncError(def, required, invalid) ==
    IF invalid
    THEN IF def = "single"
         THEN (IF required THEN "This field is required" ELSE "Invalid value")
         ELSE (IF required THEN "Please select at least one option"
                           ELSE "Invalid selection")
    ELSE "null"

\* validateField (single): the error it sets
validateField_single(required, isChecked) ==
    IF required /\ ~isChecked THEN "This field is required" ELSE "null"

\* validateField (group): the error it sets
validateField_group(required, selection) ==
    IF required /\ Len(selection) = 0
    THEN "Please select at least one option"
    ELSE "null"

\* mutant: the value submitted is the state before the click
submitted_single_Stale(isChecked) == BooleanToString(~isChecked)

\* handleChange (single): the value passed to submitValue
submitted_single(isChecked) == BooleanToString(isChecked)

\* mutant: the option is added whether it was checked or unchecked
newSelected_AlwaysAdd(selection, option, isChecked) ==
    Append(selection, option)

\* handleChange (group): newSelected
newSelected(selection, option, isChecked) ==
    IF isChecked
    THEN Append(selection, option)
    ELSE SelectSeq(selection, LAMBDA item : item # option)

Required == fElement.extraAttributes.required

\* the state of a FormComponent once mounted with defaultValue and its
\* effect has run
Mounted(defaultValue) ==
    /\ fDefault' = defaultValue
    /\ checked' = IF fDef = "single" THEN initialChecked(defaultValue) ELSE FALSE
    /\ selectedOptions' =
           IF fDef = "group" THEN initialSelectedOptions(defaultValue) ELSE <<>>
    /\ error' = syncError(fDef, Required, isInvalid)

\* the single Checkbox's onCheckedChange: handleChange(!!checked), the
\* Checkbox being controlled by checked
ToggleCheckbox ==
    /\ fDef = "single"
    /\ LET isChecked == ~checked
       IN  /\ checked' = isChecked
           /\ error' = validateField_single(Required, isChecked)
           /\ submitted' = IF fSubmit THEN submitted_single(isChecked)
                                      ELSE submitted
    /\ UNCHANGED <<fDef, fElement, fSubmit, fDefault, isInvalid,
                   selectedOptions, mounts>>
    /\ UNCHANGED <<validateVars, designerVars>>

\* the onCheckedChange of the Checkbox rendered for options[index], which is
\* controlled by selectedOptions.includes(option): handleChange(option, !!checked)
ToggleOption(index) ==
    /\ fDef = "group"
    /\ index \in 1..Len(fElement.extraAttributes.options)
    /\ LET option    == fElement.extraAttributes.options[index]
           isChecked == ~Includes(selectedOptions, option)
           selection == newSelected(selectedOptions, option, isChecked)
       IN  /\ selectedOptions' = selection
           /\ error' = validateField_group(Required, selection)
           /\ submitted' = IF fSubmit THEN Join(selection, <<",">>)
                                      ELSE submitted
    /\ UNCHANGED <<fDef, fElement, fSubmit, fDefault, isInvalid, checked,
                   mounts>>
    /\ UNCHANGED <<validateVars, designerVars>>

\* the parent renders the component with another isInvalid: the effect runs
ParentSetsInvalid ==
    /\ isInvalid' = ~isInvalid
    /\ error' = syncError(fDef, Required, isInvalid')
    /\ UNCHANGED <<fDef, fElement, fSubmit, fDefault, checked, selectedOptions,
                   submitted, mounts>>
    /\ UNCHANGED <<validateVars, designerVars>>

\* the component is created again with the submitted value as defaultValue
Remount ==
    /\ submitted # undefined
    /\ mounts < MaxRemounts
    /\ mounts' = mounts + 1
    /\ Mounted(submitted)
    /\ UNCHANGED <<fDef, fElement, fSubmit, isInvalid, submitted>>
    /\ UNCHANGED <<validateVars, designerVars>>

\* option texts of the configurations shown: plain, holding a comma, blank, empty
FormOptionTexts == {<<"a">>, <<"b">>, <<"a", ",", "b">>, <<" ">>, <<>>}

FormOptionLists ==
    UNION {[1..n -> FormOptionTexts] : n \in 1..MaxOptions}

\* instances whose configuration the definition's schema accepts
FormInstances(def) ==
    IF def = "single"
    THEN {[id |-> "f1", type |-> type_single,
           extraAttributes |-> [extraAttributes_single EXCEPT !.required = r]] :
              r \in BOOLEAN}
    ELSE {[id |-> "f1", type |-> type_group,
           extraAttributes |->
               [extraAttributes_group EXCEPT !.required = r, !.options = o]] :
              r \in BOOLEAN, o \in FormOptionLists}

InitForm ==
    /\ fDef \in Definitions
    /\ fElement \in FormInstances(fDef)
    /\ fSubmit \in BOOLEAN
    /\ fDefault = undefined
    /\ isInvalid \in BOOLEAN
    /\ checked = initialChecked(fDefault)
    /\ selectedOptions = <<>>
    /\ error = syncError(fDef, Required, isInvalid)
    /\ submitted = undefined
    /\ mounts = 0

\* no FormComponent is mounted
NoForms ==
    /\ fDef = "single"
    /\ fElement = [id |-> "f1", type |-> type_single,
                   extraAttributes |-> extraAttributes_single]
    /\ fSubmit = FALSE
    /\ fDefault = undefined
    /\ isInvalid = FALSE
    /\ checked = FALSE
    /\ selectedOptions = <<>>
    /\ error = "null"
    /\ submitted = undefined
    /\ mounts = 0

----------------------------------------------------------------------------
(* Specification of a validate call: the inputs are drawn in Init *)

ValueChars == {" ", "\t", "a"}

SubmittedValues ==
    StringsUpTo(ValueChars, MaxValueLen) \cup {S_true, S_false, S_Option1}

\* instances differing in required, the rest as constructed
ValidateInstances(def) ==
    {[id |-> "f1", type |-> TypeOf(def),
      extraAttributes |->
          [(IF def = "single" THEN extraAttributes_single
                              ELSE extraAttributes_group)
              EXCEPT !.required = r]] : r \in BOOLEAN}

InitValidate ==
    /\ vDef \in Definitions
    /\ vInstance \in ValidateInstances(vDef)
    /\ vValue \in SubmittedValues \cup {undefined}
    /\ vResult = "none"
    /\ InitDesigner
    /\ NoForms

Validate ==
    /\ vResult = "none"
    /\ vResult' = validate(vDef, vInstance, vValue)
    /\ UNCHANGED <<vDef, vInstance, vValue>>
    /\ UNCHANGED <<designerVars, formVars>>

NextValidate == Validate

SpecValidate == InitValidate /\ [][NextValidate]_vars

----------------------------------------------------------------------------
(* Specification of the designer: several elements, few edits *)

NoValidate ==
    /\ vDef = "single"
    /\ vInstance = construct_single("f1")
    /\ vValue = <<>>
    /\ vResult = "none"

DesignerLabels == {Repeat("x", n) : n \in {1, 2}}

InitDesignerSpec == NoValidate /\ InitDesigner /\ NoForms

NextDesigner ==
    \/ \E def \in Definitions, id \in ElementIds : AddElement(def, id)
    \/ \E id \in ElementIds : SelectElement(id)
    \/ \E s \in DesignerLabels : ChangeLabel(s)
    \/ ToggleRequired
    \/ BlurForm

SpecDesigner == InitDesignerSpec /\ [][NextDesigner]_vars

----------------------------------------------------------------------------
(* Specification of the properties panel: one element, edits of every      *)
(* control, with texts on both sides of each limit of the schema           *)

PanelLabels == {Repeat("x", n) : n \in {1, 2, 50, 51}}
PanelHelperTexts == {Repeat("h", n) : n \in {200, 201}}
PanelOptionsTexts == {<<>>, <<" ", "a", " ", ",", "b">>}

NextPanel ==
    \/ \E def \in Definitions : AddElement(def, "e1")
    \/ SelectElement("e1")
    \/ \E s \in PanelLabels : ChangeLabel(s)
    \/ \E s \in PanelHelperTexts : ChangeHelperText(s)
    \/ ToggleRequired
    \/ \E s \in PanelOptionsTexts : ChangeOptionsInput(s)
    \/ BlurOptionsInput
    \/ BlurForm

SpecPanel == InitDesignerSpec /\ [][NextPanel]_vars

----------------------------------------------------------------------------
(* Specification of the options input: one checkbox group, every text up   *)
(* to the bound typed into the options input                               *)

OptionsInputChars == {"a", " ", ","}
\* a label the schema rejects, so that a blur may leave the edit unapplied
TooShortLabel == <<"x">>
OptionsTexts == StringsUpTo(OptionsInputChars, MaxOptionsInputLen)

NextOptions ==
    \/ AddElement("group", "e1")
    \/ SelectElement("e1")
    \/ ChangeLabel(TooShortLabel)
    \/ \E s \in OptionsTexts : ChangeOptionsInput(s)
    \/ BlurOptionsInput
    \/ BlurForm

SpecOptions == InitDesignerSpec /\ [][NextOptions]_vars

----------------------------------------------------------------------------
(* Specification of a FormComponent *)

InitFormSpec == NoValidate /\ InitDesigner /\ InitForm

NextForm ==
    \/ ToggleCheckbox
    \/ \E index \in 1..MaxOptions : ToggleOption(index)
    \/ ParentSetsInvalid
    \/ Remount

SpecForm == InitFormSpec /\ [][NextForm]_vars

----------------------------------------------------------------------------
(* Claims about validate *)

HasNonWhiteSpace(s) == \E i \in 1..Len(s) : s[i] \notin WhiteSpace

\* C1: the checkbox group's validate, on a submitted string: when required,
\* true exactly when the string holds a non-whitespace character; when not
\* required, true for every string.
C1_GroupValidate ==
    (vDef = "group" /\ vResult # "none" /\ vValue # undefined) =>
        IF vInstance.extraAttributes.required
        THEN vResult = Returned(HasNonWhiteSpace(vValue))
        ELSE vResult = "true"

C1_Witness ==
    /\ vDef = "group"
    /\ vInstance.extraAttributes.required
    /\ vValue = S_Option1
    /\ vResult = "true"

\* C2: the single checkbox's validate, on a submitted string: when required,
\* true exactly when the value is the literal "true"; when not required,
\* true for every value.
C2_SingleValidate ==
    (vDef = "single" /\ vResult # "none" /\ vValue # undefined) =>
        IF vInstance.extraAttributes.required
        THEN /\ vValue = S_true => vResult = "true"
             /\ vValue # S_true => vResult = "false"
        ELSE vResult = "true"

C2_Witness ==
    /\ vDef = "single"
    /\ vInstance.extraAttributes.required
    /\ vValue = S_false
    /\ vResult = "false"

\* C3: validate on undefined (no entry in the submitted value map) never
\* raises an error: it returns a boolean, which is false when the field is
\* required.
C3_UndefinedNeverThrows ==
    (vResult # "none" /\ vValue = undefined) =>
        /\ vResult \in {"true", "false"}
        /\ vInstance.extraAttributes.required => vResult = "false"


----------------------------------------------------------------------------
(* Claims about construct and the definitions *)

\* the heap after a write to the label and (where there is one) the options
\* list of the configuration that element i refers to
AfterWrite(i) ==
    LET r == elements[i].extraAttributes
    IN  [heap EXCEPT
            ![r] = IF madeBy[i] = "group"
                   THEN [@ EXCEPT !.label = <<"w">>, !.options = <<>>]
                   ELSE [@ EXCEPT !.label = <<"w">>]]

\* C4: instances made by separate construct calls of one field type never
\* share a configuration object: a change to the configuration of one (its
\* options list included) is not observable in another, nor in the default
\* template of the type.
C4_NoSharedConfiguration ==
    \A i \in DOMAIN elements :
        /\ \A j \in DOMAIN elements \ {i} :
               madeBy[i] = madeBy[j] =>
                   /\ elements[i].extraAttributes # elements[j].extraAttributes
                   /\ AfterWrite(i)[elements[j].extraAttributes] = Config(j)
        /\ AfterWrite(i)[ModuleRef(madeBy[i])] = heap[ModuleRef(madeBy[i])]

\* C5: no two definitions declare the same type tag: a tag identifies one
\* definition, so two instances with the same tag were made by, and are
\* handled by, the same definition.
C5_TagIdentifiesOneDefinition ==
    \A i, j \in DOMAIN elements :
        elements[i].type = elements[j].type => madeBy[i] = madeBy[j]

\* C6: the configuration of construct(id) is accepted by the same
\* definition's configuration schema: label of 2 to 50 characters, helperText
\* of at most 200, required a boolean and, for the checkbox group, at least
\* one option.
C6_ConstructedPassesSchema ==
    [][\A id \in (DOMAIN elements') \ (DOMAIN elements) :
          LET c == heap'[elements'[id].extraAttributes]
              d == madeBy'[id]
          IN  /\ propertiesSchema(d, c)
              /\ Len(c.label) \in 2..50
              /\ Len(c.helperText) \in 0..200
              /\ c.required \in BOOLEAN
              /\ d = "group" => Len(c.options) >= 1]_vars

C6_Witness ==
    /\ lastStep.handler = "construct"
    /\ \E i, j \in DOMAIN elements : madeBy[i] = "single" /\ madeBy[j] = "group"

----------------------------------------------------------------------------
(* Claims about the properties panel *)

\* C7: the panel calls updateElement only when the edited values pass the
\* field type's schema; when they are rejected updateElement is not called
\* and every stored configuration stays as it was.  (After a blur the form
\* holds the edited values, whether they were applied or rejected.)
C7_UpdateOnlyWhenAccepted ==
    [][LET blur == lastStep'.handler \in {"formBlur", "optionsBlur"}
           kept == \A id \in DOMAIN elements :
                       /\ id \in DOMAIN elements'
                       /\ heap'[elements'[id].extraAttributes] = Config(id)
       IN  /\ lastStep'.updateElement =>
                 /\ blur
                 /\ propertiesSchema(madeBy'[selected'], form')
                 /\ heap'[elements'[selected'].extraAttributes] = form'
           /\ (blur /\ ~propertiesSchema(madeBy'[selected'], form')) =>
                 ~lastStep'.updateElement
           /\ ~lastStep'.updateElement => kept]_vars

\* a too long label was rejected after another one had been applied
C7_Witness ==
    /\ lastStep = Step("formBlur", FALSE)
    /\ madeBy[selected] = "group"
    /\ Len(form.label) = 51
    /\ Len(Config(selected).label) = 50
    /\ Config(selected).options = <<<<"a">>, <<"b">>>>

\* the text holds nothing but blanks and commas
NothingTyped(text) == \A i \in 1..Len(text) : text[i] \in WhiteSpace \cup {","}

WellFormedOptions(options) ==
    /\ Len(options) >= 1
    /\ \A k \in 1..Len(options) :
           LET opt == options[k]
           IN  /\ Len(opt) > 0
               /\ opt[1] \notin WhiteSpace
               /\ opt[Len(opt)] \notin WhiteSpace
               /\ \A i \in 1..Len(opt) : opt[i] # ","

\* C10: when the options input loses focus, the list handed to the form is
\* non-empty and each option is a trimmed, non-empty string without a comma;
\* a text with nothing in it gives ["Option 1"].
C10_OptionsOnBlur ==
    [][lastStep'.handler = "optionsBlur" =>
          /\ WellFormedOptions(form'.options)
          /\ NothingTyped(optionsInput) => form'.options = <<S_Option1>>
          /\ optionsInput' = Join(form'.options, S_CommaSpace)]_vars

C10_Witness ==
    /\ lastStep.handler = "optionsBlur"
    /\ form.options = <<<<"a">>, <<"a">>>>

----------------------------------------------------------------------------
(* Claims about FormComponent *)

NoDuplicates(list) ==
    \A i, j \in 1..Len(list) : list[i] = list[j] => i = j

Without(list, x) == SelectSeq(list, LAMBDA item : item # x)

StartedEmpty == initialSelectedOptions(fDefault) = <<>>

\* C8: in the checkbox group's form component a toggle of an unchecked
\* option appends it to the selection and a toggle of a checked one removes
\* it; the value submitted is the selection joined with ","; from an empty
\* initial selection the selection never holds a duplicate nor anything but
\* configured options.
C8_GroupSelection ==
    [][(fDef = "group" /\ selectedOptions' # selectedOptions
                       /\ mounts' = mounts) =>
          LET options == fElement.extraAttributes.options
          IN  /\ \E k \in 1..Len(options) :
                     IF Includes(selectedOptions, options[k])
                     THEN selectedOptions' = Without(selectedOptions, options[k])
                     ELSE selectedOptions' = Append(selectedOptions, options[k])
              /\ fSubmit => submitted' = Join(selectedOptions', <<",">>)
              /\ StartedEmpty =>
                     /\ NoDuplicates(selectedOptions')
                     /\ \A i \in 1..Len(selectedOptions') :
                            Includes(options, selectedOptions'[i])]_vars

C8_Witness ==
    /\ fDef = "group"
    /\ fSubmit
    /\ StartedEmpty
    /\ fElement.extraAttributes.options = <<<<"a">>, <<"b">>>>
    /\ selectedOptions = <<<<"b">>, <<"a">>>>
    /\ submitted = <<"b", ",", "a">>

\* C9: in the single checkbox's form component every submitted value is
\* "true" or "false", and the last one is "true" exactly when the checkbox
\* is checked.
C9_SingleSubmitted ==
    (fDef = "single" /\ submitted # undefined) =>
        /\ submitted \in {S_true, S_false}
        /\ (submitted = S_true) <=> checked

C9_Witness ==
    /\ fDef = "single"
    /\ submitted = S_false
    /\ ~checked
    /\ mounts = 0


\* a step in which the user toggled a checkbox of the mounted component
ToggleStep ==
    /\ mounts' = mounts
    /\ checked' # checked \/ selectedOptions' # selectedOptions

\* nothing is checked (single checkbox) or selected (checkbox group)
NothingChosen(isChecked, selection) ==
    IF fDef = "single" THEN ~isChecked ELSE Len(selection) = 0

\* C11 as stated: whenever isInvalid is true an error message is displayed,
\* and isInvalid turning false clears the message.
C11_InvalidImpliesError ==
    [][/\ isInvalid' => error' # "null"
       /\ (isInvalid /\ ~isInvalid') => error' = "null"]_vars

\* C11 as amended: when the parent changes isInvalid (or the component is
\* mounted) the effect shows a message exactly when isInvalid is true, so
\* isInvalid turning false clears it; a toggle then replaces the message by
\* the component's own verdict (a message exactly when the field is required
\* and nothing is chosen), whatever isInvalid is.
C11_ErrorFollowsLastEvent ==
    [][/\ (isInvalid' # isInvalid \/ mounts' # mounts) =>
              (error' # "null" <=> isInvalid')
       /\ ToggleStep =>
              /\ isInvalid' = isInvalid
              /\ error' # "null" <=>
                     (Required /\ NothingChosen(checked', selectedOptions'))]_vars

\* the parent still says invalid, the user has checked the required box,
\* and no message is displayed
C11_Witness ==
    /\ fDef = "single"
    /\ Required
    /\ isInvalid
    /\ checked
    /\ error = "null"

\* C12: on every toggle the component's own verdict (validateField: invalid
\* exactly when required and nothing is chosen, shown as the error it sets)
\* equals the definition's validate on the value submitted in that toggle.
C12_InlineVerdictIsValidate ==
    [][(ToggleStep /\ fSubmit) =>
          ((error' = "null") <=>
               (validate(fDef, fElement, submitted') = "true"))]_vars

\* C13: creating the checkbox group's component again with the submitted
\* string as defaultValue yields the selected options it was submitted
\* from, in the same order.
C13_RoundTrip ==
    [][(fDef = "group" /\ mounts' # mounts) =>
          /\ submitted = Join(selectedOptions, <<",">>)
          /\ selectedOptions' = selectedOptions]_vars

=============================================================================
